---- MODULE Spec2Model ----
(***************************************************************************)
(* A model of suchoi.c: the hash function suchoi, its permutation function *)
(* shapashnik, and the bit primitives and octet codecs beside them.        *)
(*                                                                         *)
(* A uint32_t is modelled as the set of the positions (0 = least           *)
(* significant) of its set bits, so the width is exactly 32 and the bit    *)
(* operators of C are set operations.  Octets and array indexes are        *)
(* integers.                                                               *)
(***************************************************************************)
EXTENDS Integers, Sequences, FiniteSets, TLC

VARIABLES
    charSigned,   \* the build: whether plain char is a signed type
    pc,           \* position of the one thread of control
    input,        \* suchoi: the octets behind the pointer input
    input_size,   \* suchoi: parameter input_size
    i,            \* suchoi: loop variable i
    state,        \* suchoi: local state
    upperNibble,  \* suchoi: local upperNibble of the last iteration
    lowerNibble,  \* suchoi: local lowerNibble of the last iteration
    beyond,       \* memory read so far outside c_pi: index -> word found there
    lookups,      \* history: number of reads c_pi[...] made by this call
    calledAt,     \* history: the values of i at which suchoi called shapashnik
    caller,       \* who called shapashnik: "suchoi" or "main"
    arg_input,    \* history: argument input of the running shapashnik call
    arg_key,      \* history: argument key of the running shapashnik call
    s_input,      \* shapashnik: parameter input (assigned in the loop)
    s_key,        \* shapashnik: parameter key (assigned in the loop)
    s_i,          \* shapashnik: loop variable i
    s_output,     \* shapashnik: local output
    shifts,       \* history: shift amounts evaluated by rotate in the last round
    result,       \* value returned by the finished call
    sw_input,     \* swapBits: argument input of the first call
    sw_pos1,      \* swapBits: argument pos1
    sw_pos2,      \* swapBits: argument pos2
    sw_output,    \* swapBits: value returned by the first call
    c_word,       \* main: the word handed to int2octets
    buffer        \* main: uint8_t buffer[4]

vars == <<charSigned, pc, input, input_size, i, state, upperNibble, lowerNibble,
          beyond, lookups, calledAt, caller, arg_input, arg_key, s_input, s_key,
          s_i, s_output, shifts, result, sw_input, sw_pos1, sw_pos2, sw_output,
          c_word, buffer>>

suchoiVars == <<input, input_size, i, state, upperNibble, lowerNibble, beyond,
                lookups, calledAt>>
shapashnikVars == <<arg_input, arg_key, s_input, s_key, s_i, s_output, shifts>>
bitVars == <<sw_input, sw_pos1, sw_pos2, sw_output, c_word, buffer>>

---------------------------------------------------------------------------
(* Bounds of the model *)

\* longest input handed to suchoi
MaxLen == 32

---------------------------------------------------------------------------
(* uint32_t arithmetic *)

WordBits == 32
Pos == 0 .. (WordBits - 1)

\* the set bits of a number below 2^16
Bits16(n) == {b \in 0 .. 15 : (n \div (2 ^ b)) % 2 = 1}
\* the word with upper half hi and lower half lo
Word(hi, lo) == Bits16(lo) \cup {b + 16 : b \in Bits16(hi)}
\* an octet converted to uint32_t
FromOctet(o) == Bits16(o)
\* the low 8 bits of a word, as an octet
RECURSIVE ToOctetFrom(_, _)
ToOctetFrom(x, b) ==
    IF b > 7 THEN 0 ELSE (IF b \in x THEN 2 ^ b ELSE 0) + ToOctetFrom(x, b + 1)
ToOctet(x) == ToOctetFrom(x, 0)

Zero == {}
Ones == Pos
\* no uint32_t: the content of a local that was never assigned
Unassigned == {-1}

Shl(x, n) == {b + n : b \in x} \cap Pos
Shr(x, n) == {b - n : b \in x} \cap Pos
Or(x, y) == x \cup y
And(x, y) == x \cap y
Xor(x, y) == (x \ y) \cup (y \ x)
Not(x) == Pos \ x

\* x >> n as a build can evaluate it.  For n >= 32 the C standard leaves the
\* shift undefined: a processor that masks the count to 5 bits yields x >> (n % 32),
\* one that shifts all bits out yields 0.
ShrOutcomes(x, n) ==
    IF n < WordBits THEN {Shr(x, n)} ELSE {Shr(x, n % WordBits), Zero}

---------------------------------------------------------------------------
(* The s-box *)

c_pi ==
    << Word(\H243F, \H6A88), Word(\H85A3, \H08D3), Word(\H3198, \HA2E0),
       Word(\H3707, \H344A), Word(\H4093, \H8222), Word(\H99F3, \H1D00),
       Word(\H82EF, \HA98E), Word(\HC4E6, \HC894), Word(\H5282, \H1E63),
       Word(\H8D01, \H377B), Word(\HE546, \H6CF3), Word(\H4E90, \HC6CC),
       Word(\H0AC2, \H9B7C), Word(\H97C5, \H0DD3), Word(\HF84D, \H5B5B),
       Word(\H5470, \H9179) >>

\* the indexes of c_pi (C counts from 0, a TLA+ tuple from 1)
CpiIndexes == 0 .. (Len(c_pi) - 1)

\* words the memory behind c_pi may hold
JunkWords == {Zero, Word(\H6C6C, \H6168)}

\* The words a read c_pi[idx] can yield with mem the memory outside the table
\* read so far.  An index outside the table reads whatever lies there: the
\* same word as before if that place was read before.
CpiReadOutcomes(idx, mem) ==
    IF idx \in CpiIndexes THEN {c_pi[idx + 1]}
    ELSE IF idx \in DOMAIN mem THEN {mem[idx]}
    ELSE JunkWords

\* the memory outside the table known after reading word v at idx
Remember(idx, v, mem) ==
    IF idx \in CpiIndexes \/ idx \in DOMAIN mem THEN mem ELSE mem @@ (idx :> v)

---------------------------------------------------------------------------
(* Bit primitives *)

\* faulty variant of rotate: the right shift one bit short
rotateShortShift(inp, count) ==
    {Or(Shl(inp, count), r) : r \in ShrOutcomes(inp, WordBits - 1 - count)}

\* rotate(input, count): the values a build can return
rotate(inp, count) ==
    {Or(Shl(inp, count), r) : r \in ShrOutcomes(inp, WordBits - count)}

\* the shift amounts rotate(input, count) evaluates
rotateShifts(count) == {count, WordBits - count}

\* faulty variant of swapBits: each bit is written back to its own place
swapBitsNoExchange(inp, pos1, pos2) ==
    LET stencil1 == Shl(Word(0, 1), pos1)
        stencil2 == Shl(Word(0, 1), pos2)
        v1 == And(inp, stencil1)
        v2 == And(inp, stencil2)
        cleared == And(And(inp, Not(stencil1)), Not(stencil2))
        with1 == IF v1 # Zero THEN Or(cleared, stencil1) ELSE cleared
    IN  IF v2 # Zero THEN Or(with1, stencil2) ELSE with1

\* swapBits(input, pos1, pos2).  The stencils are 1 << pos: for pos = 31 the
\* int 1 is shifted into its sign bit, which every build turns into the
\* uint32_t 0x80000000.
swapBits(inp, pos1, pos2) ==
    LET stencil1 == Shl(Word(0, 1), pos1)
        stencil2 == Shl(Word(0, 1), pos2)
        v1 == And(inp, stencil1)
        v2 == And(inp, stencil2)
        cleared == And(And(inp, Not(stencil1)), Not(stencil2))
        with1 == IF v2 # Zero THEN Or(cleared, stencil1) ELSE cleared
    IN  IF v1 # Zero THEN Or(with1, stencil2) ELSE with1

---------------------------------------------------------------------------
(* Octet/integer codecs *)

OctetCount == 4

RECURSIVE int2octetsLoop(_, _, _)
int2octetsLoop(inp, k, output) ==
    IF k < OctetCount
    THEN int2octetsLoop(Shr(inp, 8), k + 1,
                        [output EXCEPT ![k + 1] = ToOctet(And(inp, Word(0, \HFF)))])
    ELSE output

\* the buffer output after int2octets(input, output)
int2octets(inp, output) == int2octetsLoop(inp, 0, output)

RECURSIVE octets2intLoop(_, _, _)
octets2intLoop(inp, k, output) ==
    IF k > 0
    THEN octets2intLoop(inp, k - 1, Shl(Or(output, FromOctet(inp[k + 1])), 8))
    ELSE Or(output, FromOctet(inp[k + 1]))

\* faulty variant of octets2int: the octets taken most significant first
octets2intBigEndian(inp) ==
    octets2intLoop([k \in 1 .. OctetCount |-> inp[OctetCount + 1 - k]],
                   OctetCount - 1, Zero)

octets2int(inp) == octets2intLoop(inp, OctetCount - 1, Zero)

---------------------------------------------------------------------------
(* shapashnik *)

Rounds == 10

\* the half swap of one round: output = (lower << 16) | upper
swapHalves(inp) ==
    LET upper == Shr(inp, 16)
        lower == And(inp, Word(0, \HFFFF))
    IN  Or(Shl(lower, 16), upper)

\* faulty variant of roundCount: a mask of four bits
roundCountFourBits(key) == ToOctet(And(key, Word(0, \HF)))

\* the count of the round's first rotate: key & 0x7, converted to uint8_t
roundCount(key) == ToOctet(And(key, Word(0, \H7)))

\* one pass of the loop body: the pairs <<output, key>> a build can leave
shapashnikRound(inp, key) ==
    {<<o, k>> : o \in rotate(swapHalves(inp), roundCount(key)),
                k \in rotate(key, 3)}

\* the values of output after n more passes of the loop
RECURSIVE shapashnikFrom(_, _, _, _)
shapashnikFrom(inp, key, output, n) ==
    IF n = 0 THEN {output}
    ELSE UNION {shapashnikFrom(r[1], r[2], r[1], n - 1) : r \in shapashnikRound(inp, key)}

\* shapashnik(input, key): the values a build can return
shapashnik(inp, key) == shapashnikFrom(inp, key, Unassigned, Rounds)

---------------------------------------------------------------------------
(* suchoi *)

\* char octet = input[i]: the value of the octet read through const char*
octetOf(o) == IF charSigned /\ o >= 128 THEN o - 256 ELSE o

\* a value converted to uint8_t
AsUint8(n) == n % 256

\* uint8_t upperNibble = octet >> 4
upperNibbleOf(octet) == AsUint8(octet \div 16)

\* uint8_t lowerNibble = octet & 0xF
lowerNibbleOf(octet) == AsUint8(octet % 16)

\* faulty variant of rotateState: the right shift by 2
rotateStateTypo(s) == Or(Shl(s, 31), Shr(s, 2))

\* state = (state << 31) | (state >> 1)
rotateState(s) == Or(Shl(s, 31), Shr(s, 1))

\* faulty variant of loopContinues: the body runs at least once
loopContinuesAtLeastOnce(k, n) == k = 0 \/ k < n

\* the condition of the for statement: i < input_size
loopContinues(k, n) == k < n

\* faulty variant of permuteDue: the first octet of each 16 instead of the last
permuteDueFirst(k) == k % 16 = 0

\* (i & 0xf) == 0xf
permuteDue(k) == k % 16 = 15

---------------------------------------------------------------------------
(* Inputs *)

\* the buffer of MaxLen octets b, b + stride, b + 2 stride, ...
Pattern(b, stride) == [k \in 1 .. MaxLen |-> (b + (k - 1) * stride) % 256]

\* main's "hallo welt" and "hbllo welt"
HalloWelt == <<104, 97, 108, 108, 111, 32, 119, 101, 108, 116>>
HblloWelt == <<104, 98, 108, 108, 111, 32, 119, 101, 108, 116>>

\* the buffers handed to suchoi: every octet value repeated, two mixed
\* patterns, and main's two literals
Buffers ==
    {Pattern(b, 0) : b \in 0 .. 255}
        \cup {Pattern(3, 5), Pattern(250, 29), HalloWelt, HblloWelt}

\* words handed to shapashnik and swapBits
Words ==
    { Zero, Ones, Word(0, 1), Word(\H8000, 0), Word(\H1234, \H5678),
      Word(\HABCD, \H0123), Word(0, \HFFFF), Word(\H5555, \H5555) }

\* words handed to int2octets: every pairing of these halves
Halves == {0, 1, \H0123, \H00FF, \H0100, \H7FFF, \H8000, \HABCD, \HFF00, \HFFFF}
CodecWords == {Word(hi, lo) : hi \in Halves, lo \in Halves}

\* keys handed to shapashnik
Keys ==
    {Word(hi, lo) : hi \in {0, \H1234, \HFFFF, \HA5C3},
                    lo \in {0, 1, 7, 8, 16, 24, 25, \H5678, \HFFE7, \HFFFF}}

---------------------------------------------------------------------------
(* The state machine *)

Init ==
    /\ charSigned \in BOOLEAN
    /\ pc = "idle"
    /\ input = <<>>
    /\ input_size = 0
    /\ i = 0
    /\ state = Zero
    /\ upperNibble = 0
    /\ lowerNibble = 0
    /\ beyond = <<>>
    /\ lookups = 0
    /\ calledAt = <<>>
    /\ caller = "none"
    /\ arg_input = Zero
    /\ arg_key = Zero
    /\ s_input = Zero
    /\ s_key = Zero
    /\ s_i = 0
    /\ s_output = Unassigned
    /\ shifts = {}
    /\ result = Unassigned
    /\ sw_input = Zero
    /\ sw_pos1 = 0
    /\ sw_pos2 = 0
    /\ sw_output = Unassigned
    /\ c_word = Zero
    /\ buffer = <<0, 0, 0, 0>>

\* a caller enters suchoi(input, input_size): state = 0, i = 0
CallSuchoi ==
    /\ pc = "idle"
    /\ \E buf \in Buffers, n \in 0 .. MaxLen :
          /\ n <= Len(buf)
          /\ input' = buf
          /\ input_size' = n
    /\ state' = Zero
    /\ i' = 0
    /\ pc' = "suchoi"
    /\ UNCHANGED <<charSigned, upperNibble, lowerNibble, beyond, lookups, calledAt,
                   caller, result>>
    /\ UNCHANGED shapashnikVars
    /\ UNCHANGED bitVars

\* one pass of suchoi's loop body up to the test of i: both nibbles folded
\* into state; then either the call of shapashnik or i++
SuchoiFold ==
    /\ pc = "suchoi"
    /\ loopContinues(i, input_size)
    /\ LET octet == octetOf(input[i + 1])
           up == upperNibbleOf(octet)
           lo == lowerNibbleOf(octet)
       IN  /\ upperNibble' = up
           /\ lowerNibble' = lo
           /\ \E vu \in CpiReadOutcomes(up, beyond) :
                \E vl \in CpiReadOutcomes(lo, Remember(up, vu, beyond)) :
                  LET folded == rotateState(Xor(rotateState(Xor(state, vu)), vl))
                  IN  /\ beyond' = Remember(lo, vl, Remember(up, vu, beyond))
                      /\ state' = folded
                      /\ IF permuteDue(i)
                         THEN /\ pc' = "shapashnik"
                              /\ caller' = "suchoi"
                              /\ calledAt' = Append(calledAt, i)
                              /\ arg_input' = folded
                              /\ arg_key' = folded
                              /\ s_input' = folded
                              /\ s_key' = folded
                              /\ s_i' = 0
                              /\ s_output' = Unassigned
                              /\ shifts' = {}
                              /\ i' = i
                         ELSE /\ pc' = "suchoi"
                              /\ i' = i + 1
                              /\ UNCHANGED <<caller, calledAt>>
                              /\ UNCHANGED shapashnikVars
    /\ lookups' = lookups + 2
    /\ UNCHANGED <<charSigned, input, input_size, result>>
    /\ UNCHANGED bitVars

\* a read outside c_pi touches memory the process may not read: it ends there
SuchoiFault ==
    /\ pc = "suchoi"
    /\ loopContinues(i, input_size)
    /\ LET up == upperNibbleOf(octetOf(input[i + 1]))
       IN  /\ up \notin CpiIndexes
           /\ up \notin DOMAIN beyond
           /\ upperNibble' = up
    /\ pc' = "fault"
    /\ UNCHANGED <<charSigned, input, input_size, i, state, lowerNibble, beyond,
                   lookups, calledAt, caller, result>>
    /\ UNCHANGED shapashnikVars
    /\ UNCHANGED bitVars

\* the loop of suchoi ends: return state
SuchoiReturn ==
    /\ pc = "suchoi"
    /\ ~loopContinues(i, input_size)
    /\ result' = state
    /\ pc' = "done"
    /\ UNCHANGED <<charSigned, caller>>
    /\ UNCHANGED suchoiVars
    /\ UNCHANGED shapashnikVars
    /\ UNCHANGED bitVars

\* main calls shapashnik(input, key)
CallShapashnik ==
    /\ pc = "idle"
    /\ \E w \in Words, k \in Keys :
          /\ arg_input' = w
          /\ arg_key' = k
          /\ s_input' = w
          /\ s_key' = k
    /\ s_i' = 0
    /\ s_output' = Unassigned
    /\ shifts' = {}
    /\ caller' = "main"
    /\ pc' = "shapashnik"
    /\ UNCHANGED <<charSigned, result>>
    /\ UNCHANGED suchoiVars
    /\ UNCHANGED bitVars

\* one pass of shapashnik's loop body
ShapashnikRound ==
    /\ pc = "shapashnik"
    /\ s_i < Rounds
    /\ \E r \in shapashnikRound(s_input, s_key) :
          /\ s_output' = r[1]
          /\ s_key' = r[2]
          /\ s_input' = r[1]
    /\ shifts' = rotateShifts(roundCount(s_key)) \cup rotateShifts(3)
    /\ s_i' = s_i + 1
    /\ UNCHANGED <<charSigned, pc, caller, arg_input, arg_key, result>>
    /\ UNCHANGED suchoiVars
    /\ UNCHANGED bitVars

\* the loop of shapashnik ends: return output.  In suchoi the value is
\* assigned to state and the for statement goes on with i++
ShapashnikReturn ==
    /\ pc = "shapashnik"
    /\ ~(s_i < Rounds)
    /\ IF caller = "suchoi"
       THEN /\ state' = s_output
            /\ i' = i + 1
            /\ pc' = "suchoi"
            /\ UNCHANGED result
       ELSE /\ result' = s_output
            /\ pc' = "done"
            /\ UNCHANGED <<state, i>>
    /\ UNCHANGED <<charSigned, input, input_size, upperNibble, lowerNibble, beyond,
                   lookups, calledAt, caller>>
    /\ UNCHANGED shapashnikVars
    /\ UNCHANGED bitVars

\* a first call swapBits(input, pos1, pos2)
CallSwapBits ==
    /\ pc = "idle"
    /\ \E w \in Words, p1 \in Pos, p2 \in Pos :
          /\ sw_input' = w
          /\ sw_pos1' = p1
          /\ sw_pos2' = p2
          /\ sw_output' = swapBits(w, p1, p2)
    /\ pc' = "swapped"
    /\ UNCHANGED <<charSigned, caller, result, c_word, buffer>>
    /\ UNCHANGED suchoiVars
    /\ UNCHANGED shapashnikVars

\* swapBits applied to its own result, at the same positions
CallSwapBitsAgain ==
    /\ pc = "swapped"
    /\ result' = swapBits(sw_output, sw_pos1, sw_pos2)
    /\ pc' = "swappedTwice"
    /\ UNCHANGED <<charSigned, caller>>
    /\ UNCHANGED suchoiVars
    /\ UNCHANGED shapashnikVars
    /\ UNCHANGED bitVars

\* main: int2octets(word, buffer)
CallInt2Octets ==
    /\ pc = "idle"
    /\ \E w \in CodecWords :
          /\ c_word' = w
          /\ buffer' = int2octets(w, buffer)
    /\ pc' = "packed"
    /\ UNCHANGED <<charSigned, caller, result, sw_input, sw_pos1, sw_pos2, sw_output>>
    /\ UNCHANGED suchoiVars
    /\ UNCHANGED shapashnikVars

\* main: octets2int(buffer)
CallOctets2Int ==
    /\ pc = "packed"
    /\ result' = octets2int(buffer)
    /\ pc' = "unpacked"
    /\ UNCHANGED <<charSigned, caller>>
    /\ UNCHANGED suchoiVars
    /\ UNCHANGED shapashnikVars
    /\ UNCHANGED bitVars

\* suchoi, with the calls of shapashnik it makes
Next ==
    \/ CallSuchoi
    \/ SuchoiFold
    \/ SuchoiFault
    \/ SuchoiReturn
    \/ ShapashnikRound
    \/ ShapashnikReturn

Spec == Init /\ [][Next]_vars

\* shapashnik called on its own, as main does
NextPerm ==
    \/ CallShapashnik
    \/ ShapashnikRound
    \/ ShapashnikReturn

SpecPerm == Init /\ [][NextPerm]_vars

\* the bit primitive swapBits and the octet codecs
NextBits ==
    \/ CallSwapBits
    \/ CallSwapBitsAgain
    \/ CallInt2Octets
    \/ CallOctets2Int

SpecBits == Init /\ [][NextBits]_vars

---------------------------------------------------------------------------
(* Properties *)

\* the first n octets of the input are one and the same octet
Identical(n) == \A k \in 1 .. n : input[k] = input[1]

\* x rotated left by n places, n any natural number
RotL(x, n) == {(b + n) % WordBits : b \in x}

\* the number held by the three bits of key from position p on
Group(key, p) ==
    (IF p \in key THEN 1 ELSE 0) + (IF (p + 1) \in key THEN 2 ELSE 0)
        + (IF (p + 2) \in key THEN 4 ELSE 0)

\* the position in the key given to shapashnik of the group that round r
\* (0 the first) uses: the key has by then been rotated left r times by 3
GroupPos(r) == (WordBits - 3 * r) % WordBits

\* the words that a rotation by 2 places leaves as they are
TwoPeriodic == {Zero, Ones, Word(\H5555, \H5555), Word(\HAAAA, \HAAAA)}

\* C1: every index suchoi computes from an octet, upperNibble and
\* lowerNibble, lies in 0..15, inside the 16 entries of c_pi.
C1_NibblesInTable ==
    /\ upperNibble \in 0 .. 15
    /\ lowerNibble \in 0 .. 15

\* C2: the digest of 32 identical octets is never 0, the digest of the
\* empty input.
C2_NoCancellation ==
    (pc = "done" /\ input_size = 32 /\ Identical(32)) => result # Zero

\* C3: suchoi calls shapashnik after the nibble folding of the octets with
\* index 15, 31, 47, ... , once each and in this order, and nowhere else, with
\* state as input and as key; so floor(n / 16) times for an input of n octets.
C3_PermuteSchedule ==
    /\ calledAt = [k \in 1 .. Len(calledAt) |-> 16 * k - 1]
    /\ pc = "suchoi" => Len(calledAt) = i \div 16
    /\ pc = "shapashnik" =>
          /\ i % 16 = 15
          /\ Len(calledAt) = (i + 1) \div 16
          /\ lookups = 2 * (i + 1)
          /\ arg_input = state
          /\ arg_key = state
    /\ pc = "done" => Len(calledAt) = input_size \div 16
    /\ input_size < 16 => calledAt = <<>>

C3_Witness ==
    /\ pc = "done"
    /\ input_size = 32
    /\ calledAt = <<15, 31>>

\* C4: with input_size 0 suchoi returns 0 whatever the pointer: state keeps
\* its initial value, c_pi is not read and shapashnik is not called.
C4_EmptyInput ==
    (pc = "done" /\ input_size = 0) =>
        /\ result = Zero
        /\ state = Zero
        /\ lookups = 0
        /\ calledAt = <<>>
        /\ caller = "none"

C4_Witness ==
    /\ pc = "done"
    /\ input_size = 0
    /\ Len(input) > 0
    /\ input[1] # 0

\* the octet of word w at place k (0 the least significant)
OctetAt(w, k) == ToOctet({b - 8 * k : b \in w} \cap (0 .. 7))

\* C5: int2octets writes the least significant octet first, and octets2int
\* applied to what int2octets wrote returns the word; 0xABCD0123 is written
\* as 0x23, 0x01, 0xCD, 0xAB.
C5_CodecRoundTrip ==
    /\ pc \in {"packed", "unpacked"} =>
          /\ \A k \in 0 .. 3 : buffer[k + 1] = OctetAt(c_word, k)
          /\ c_word = Word(\HABCD, \H0123) => buffer = <<\H23, \H01, \HCD, \HAB>>
    /\ pc = "unpacked" => result = c_word

C5_Witness ==
    /\ pc = "unpacked"
    /\ c_word = Word(\HABCD, \H0123)
    /\ buffer = <<\H23, \H01, \HCD, \HAB>>
    /\ result = Word(\HABCD, \H0123)

\* the working value after n rounds as C6 states them: halves swapped,
\* rotated left by the low three bits of the key, the key then rotated
\* left by 3
RECURSIVE RoundsApplied(_, _, _)
RoundsApplied(w, key, n) ==
    IF n = 0 THEN w
    ELSE RoundsApplied(RotL(RotL(w, 16), Group(key, 0)), RotL(key, 3), n - 1)

\* C6: shapashnik returns after exactly 10 passes of its loop, none left
\* out, and after each pass output is the value the rounds stated give.
C6_TenRounds ==
    /\ s_i <= 10
    /\ (pc = "shapashnik" /\ s_i > 0) =>
          s_output = RoundsApplied(arg_input, arg_key, s_i)
    /\ pc = "done" =>
          /\ s_i = 10
          /\ result = RoundsApplied(arg_input, arg_key, 10)

C6_Witness ==
    /\ pc = "done"
    /\ s_i = 10
    /\ arg_input = Word(\H1234, \H5678)
    /\ arg_key = Word(\H1234, \H5678)
    /\ result = Word(\HF024, \H68AC)

\* C7: swapBits exchanges the bits at pos1 and pos2 and leaves every other
\* bit alone, also for pos1 = pos2; applied twice it gives the word back.
C7_SwapBits ==
    /\ pc \in {"swapped", "swappedTwice"} =>
          /\ (sw_pos1 \in sw_output) = (sw_pos2 \in sw_input)
          /\ (sw_pos2 \in sw_output) = (sw_pos1 \in sw_input)
          /\ \A b \in Pos \ {sw_pos1, sw_pos2} : (b \in sw_output) = (b \in sw_input)
          /\ sw_output \subseteq Pos
    /\ pc = "swappedTwice" => result = sw_input

C7_Witness ==
    /\ pc = "swappedTwice"
    /\ sw_pos1 = 31
    /\ sw_pos2 = 0
    /\ sw_input = Word(0, 1)
    /\ sw_output = Word(\H8000, 0)
    /\ result = sw_input

\* C8: every rotate called in a shapashnik computation shifts by less than
\* 32 in both of its shifts, count and 32 - count.
C8_ShiftsBelowWidth == \A a \in shifts : a < 32

\* the sum of the ten groups of three key bits the rounds use
RECURSIVE KeySum(_, _)
KeySum(key, r) ==
    IF r = 0 THEN 0 ELSE Group(key, GroupPos(r - 1)) + KeySum(key, r - 1)

\* C9: shapashnik returns its input rotated left by the sum of the ten key
\* groups; so it keeps the number of set bits, maps 0 to 0 and 0xFFFFFFFF to
\* 0xFFFFFFFF, and key bits 3 and 4 have no influence.
C9_PureRotation ==
    pc = "done" =>
        /\ result = RotL(arg_input, KeySum(arg_key, 10))
        /\ Cardinality(result) = Cardinality(arg_input)
        /\ arg_input = Zero => result = Zero
        /\ arg_input = Ones => result = Ones
        /\ \A t \in SUBSET {3, 4} :
              shapashnik(arg_input, (arg_key \ {3, 4}) \cup t) = {result}

C9_Witness ==
    /\ pc = "done"
    /\ arg_input = Word(\HABCD, \H0123)
    /\ arg_key = Word(\HA5C3, 25)
    /\ KeySum(arg_key, 10) % 32 # 0
    /\ result # arg_input
    /\ result = RotL(arg_input, KeySum(arg_key, 10))

\* C10: for 16 identical octets below 128, state is one of 0x00000000,
\* 0x55555555, 0xAAAAAAAA, 0xFFFFFFFF when shapashnik is called at the 16th
\* octet, when it has returned, and as the digest.
C10_SixteenIdentical ==
    (input_size = 16 /\ Identical(16) /\ input[1] \in 0 .. 127) =>
        /\ pc = "shapashnik" => (state \in TwoPeriodic /\ arg_input \in TwoPeriodic)
        /\ (pc = "shapashnik" /\ s_i = 10) => s_output \in TwoPeriodic
        /\ (pc = "suchoi" /\ i = 16) => state \in TwoPeriodic
        /\ pc = "done" => (result \in TwoPeriodic /\ RotL(result, 2) = result)

C10_Witness ==
    /\ pc = "done"
    /\ input_size = 16
    /\ Identical(16)
    /\ input[1] = 1
    /\ arg_input = Word(\HAAAA, \HAAAA)
    /\ result = Word(\H5555, \H5555)

====
